---------------------------- MODULE Spec2Model ----------------------------
(***************************************************************************)
(* A model of src/compiler/compiler.go (package compiler of gopherjs):     *)
(*   - SourceMapFilter.Write, byte by byte            (specification       *)
(*     SpecFilter);                                                        *)
(*   - Compiler.WriteProgramCode and Compiler.WritePkgCode: the dead code  *)
(*     elimination worklist, the package blocks, the interface dispatch    *)
(*     tables and the order of the output           (specification Spec).  *)
(* Strings are tuples of one-character strings, so that string             *)
(* concatenation, strings.Split and the byte order used by sort.Strings    *)
(* are computed and not assumed.  Bytes are the integers 0..255.           *)
(***************************************************************************)
EXTENDS Integers, Sequences, FiniteSets, TLC

VARIABLES
    \* ---- the arguments and locals of Compiler.WriteProgramCode
    pkgs,            \* pkgs []*Archive; DceFilters are drained in place
    typesPackages,   \* Compiler.typesPackages, path -> package scope
    mainPkgPath,     \* the argument mainPkgPath
    minify,          \* the argument minify
    input,           \* pkgs as they were when WriteProgramCode was called
    declsByObject,   \* the local map declsByObject
    pendingDecls,    \* the local stack pendingDecls
    pc,              \* the position inside WriteProgramCode
    idx,             \* the index of the running "for _, pkg := range pkgs"
    out,             \* what w.Write was handed, one entry per call
    \* ---- what is kept of the calls of WriteProgramCode, to state the claims
    fresh,           \* pkgs of the running call as they were loaded, unlinked
    firstCall,       \* what the first call left: its output, live set, candidates
    round,           \* the number of the running call of WriteProgramCode
    pushed,          \* every append to pendingDecls of the running call, in order
    consumed,        \* every key deleted from declsByObject in the running call
    \* ---- loading archives: Compiler.typesPackages is the registry
    allocated,       \* the number of *types.Package objects created so far
    archive,         \* the Archive handed to MarshalArchive
    data,            \* the bytes MarshalArchive returned, or a file holds
    loaded,          \* what the last UnmarshalArchive returned
    \* ---- the Dependencies of two Archives
    Dependencies,    \* Archive.Dependencies of the archives "a" and "b"
    startDependencies, \* Dependencies before any call
    added,           \* the paths handed to AddDependency, per archive, in order
    \* ---- the fields of SourceMapFilter
    MappingCallback, \* TRUE when f.MappingCallback != nil
    fileSet,         \* f.fileSet
    line,            \* f.line
    column,          \* f.column
    \* ---- the surroundings of SourceMapFilter.Write
    sink,            \* the bytes f.Writer has accepted
    room,            \* the bytes f.Writer still accepts, -1: without limit
    calls,           \* the invocations of f.MappingCallback, in order
    stream,          \* the byte stream the caller feeds to the filter
    writes,          \* the arguments p of the Write calls made so far
    ret,             \* (n, err) of the last Write call
    sinkFailed,      \* TRUE once f.Writer.Write has returned an error
    panicked         \* TRUE once a Write call has panicked

vars == <<pkgs, typesPackages, mainPkgPath, minify, input, declsByObject,
          pendingDecls, pc, idx, out, fresh, firstCall, round, pushed, consumed,
          allocated, archive, data, loaded,
          Dependencies, startDependencies, added,
          MappingCallback, fileSet, line, column,
          sink, room, calls, stream, writes, ret, sinkFailed, panicked>>

loadVars == <<allocated, archive, data, loaded>>

depVars == <<Dependencies, startDependencies, added>>

histVars == <<fresh, firstCall, round, pushed, consumed>>

linkVars == <<pkgs, typesPackages, mainPkgPath, minify, input, declsByObject,
              pendingDecls, pc, idx, out, histVars>>

writeVars == <<line, column, sink, room, calls, stream, writes, ret, sinkFailed,
               panicked>>

-----------------------------------------------------------------------------
(* Bounds of the model.                                                    *)

\* the declarations of a program
MaxDecls == 3
\* the filters of a declaration
MaxFilters == 2
\* the dependencies of a declaration
MaxDeps == 2
\* the filters and dependencies of a program, all declarations together
MaxEntries == 4
\* the number of items (a text byte, or a sentinel with its cookie) of a stream
MaxItems == 3
\* the bytes a failing sink accepts before it reports an error
MaxRoom == 2

\* the paths handed to AddDependency in one behaviour, at most
MaxAdded == 3

\* the length of Archive.Dependencies before the first call, at most
MaxStartDeps == 2

-----------------------------------------------------------------------------
(* Generic helpers on sequences.                                           *)

RECURSIVE Concat(_)
Concat(ss) == IF ss = <<>> THEN <<>> ELSE Head(ss) \o Concat(Tail(ss))

Drop(s, n) == SubSeq(s, n + 1, Len(s))

Take(s, n) == SubSeq(s, 1, n)

-----------------------------------------------------------------------------
(* Strings: tuples of one-character strings.                               *)

\* the characters the model's strings are made of, in the order of their bytes
Alphabet ==
    <<"\"", "$", "(", ")", ".", "0", "1", "2", "3", "4", "5", "6", "7", "8", "9",
      ":", "E", "I", "J", "M", "P", "S", "T", "[", "]",
      "a", "b", "c", "d", "e", "f", "g", "i", "k", "m", "n", "o", "p", "q", "r",
      "s", "t", "v", "y">>

\* the byte of a character, up to the order
Ord(c) == CHOOSE n \in 1..Len(Alphabet) : Alphabet[n] = c

\* a < b for Go strings: bytewise, a proper prefix first
RECURSIVE StrLess(_, _)
StrLess(a, b) ==
    IF b = <<>> THEN FALSE
    ELSE IF a = <<>> THEN TRUE
    ELSE IF Head(a) = Head(b) THEN StrLess(Tail(a), Tail(b))
    ELSE Ord(Head(a)) < Ord(Head(b))

\* the strings of S in descending order
RECURSIVE SortStringsBug(_)
SortStringsBug(S) ==
    IF S = {} THEN <<>>
    ELSE LET x == CHOOSE y \in S : \A z \in S : z = y \/ StrLess(z, y)
         IN  <<x>> \o SortStringsBug(S \ {x})

\* sort.Strings(list), list being the keys of the map implementedBy
RECURSIVE SortStrings(_)
SortStrings(S) ==
    IF S = {} THEN <<>>
    ELSE LET x == CHOOSE y \in S : \A z \in S : z = y \/ StrLess(y, z)
         IN  <<x>> \o SortStrings(S \ {x})

\* the position of the first c in s, 0 when there is none
RECURSIVE IndexOf(_, _, _)
IndexOf(s, c, i) ==
    IF i > Len(s) THEN 0
    ELSE IF s[i] = c THEN i
    ELSE IndexOf(s, c, i + 1)

\* strings.Split(s, ":")
RECURSIVE SplitColon(_)
SplitColon(s) ==
    LET i == IndexOf(s, ":", 1) IN
    IF i = 0 THEN <<s>> ELSE <<Take(s, i - 1)>> \o SplitColon(Drop(s, i))

\* string(pkg.ImportPath) + ":" + string(f)
SymbolId(path, name) == path \o <<":">> \o name

\* name := strings.Split(o, ":")[1] (mutant: index 0, the part before the colon)
FilterNameOfBug(o) == SplitColon(o)[1]

FilterNameOf(o) == SplitColon(o)[2]

-----------------------------------------------------------------------------
(* Compiler.WriteProgramCode: dead code elimination.  A declaration is     *)
(* referred to by <<i, k>>: &pkgs[i].Declarations[k].                      *)

DeclAt(ps, r) == ps[r[1]].Declarations[r[2]]

\* every &pkg.Declarations[i], in the order of the two range loops
AllDecls(ps) ==
    Concat([i \in 1..Len(ps) |->
              [k \in 1..Len(ps[i].Declarations) |-> <<i, k>>]])

\* the declarations that start on the stack: len(d.DceFilters) == 0 (mutant:
\* every declaration starts on the stack)
UnfilteredBug(ps) == AllDecls(ps)

Unfiltered(ps) == SelectSeq(AllDecls(ps), LAMBDA r : Len(DeclAt(ps, r).DceFilters) = 0)

\* one entry per filter of every declaration, in the order the loops visit them
FilterEntries(ps) ==
    Concat([i \in 1..Len(ps) |->
              Concat([k \in 1..Len(ps[i].Declarations) |->
                        [j \in 1..Len(ps[i].Declarations[k].DceFilters) |->
                           [decl |-> <<i, k>>,
                            id |-> SymbolId(ps[i].ImportPath,
                                            ps[i].Declarations[k].DceFilters[j])]]])])

\* declsByObject[o] = append(declsByObject[o], d)
BuildIndex(ps) ==
    LET es == FilterEntries(ps) IN
    [o \in {es[n].id : n \in 1..Len(es)} |->
       LET mine == SelectSeq(es, LAMBDA e : e.id = o)
       IN  [n \in 1..Len(mine) |-> mine[n].decl]]

\* delete(declsByObject, o)
Delete(index, o) == [x \in (DOMAIN index) \ {o} |-> index[x]]

\* the inner loop over d.DceFilters: the first filter equal to name is overwritten
\* with the last one and the slice is cut by one (mutant: the slice is cut, the
\* last filter is not moved)
RemoveFilterBug(filters, name) ==
    LET i == IndexOf(filters, name, 1) IN
    IF i = 0 THEN filters ELSE Take(filters, Len(filters) - 1)

\* (mutant: every filter equal to name is removed at once)
RemoveAllBug(filters, name) == SelectSeq(filters, LAMBDA f : f # name)

RemoveFilter(filters, name) ==
    LET i == IndexOf(filters, name, 1) IN
    IF i = 0 THEN filters
    ELSE Take([filters EXCEPT ![i] = filters[Len(filters)]], Len(filters) - 1)

\* if len(d.DceFilters) == 0 (mutant: one filter released is enough)
DrainedBug(before, after) == Len(after) < Len(before) \/ Len(after) = 0

Drained(before, after) == Len(after) = 0

\* "for _, d := range decls": st is [pkgs, index, pending]
RECURSIVE ReleaseDecls(_, _, _, _)
ReleaseDecls(st, decls, name, n) ==
    IF n > Len(decls) THEN st
    ELSE LET r      == decls[n]
             before == DeclAt(st.pkgs, r).DceFilters
             after  == RemoveFilter(before, name)
             ps     == [st.pkgs EXCEPT ![r[1]].Declarations[r[2]].DceFilters = after]
         IN  ReleaseDecls([st EXCEPT !.pkgs = ps,
                                     !.pending = IF Drained(before, after)
                                                 THEN Append(@, r) ELSE @],
                          decls, name, n + 1)

\* "for _, dep := range d.DceDeps" of the declaration popped from the stack
RECURSIVE ProcessDeps(_, _, _)
ProcessDeps(st, deps, j) ==
    IF j > Len(deps) THEN st
    ELSE LET o == deps[j] IN
         IF o \in DOMAIN st.index
         THEN ProcessDeps(ReleaseDecls([st EXCEPT !.index = Delete(@, o)],
                                       st.index[o], FilterNameOf(o), 1),
                          deps, j + 1)
         ELSE ProcessDeps(st, deps, j + 1)

\* one turn of "for len(pendingDecls) != 0"
DceIteration(st) ==
    LET r == st.pending[Len(st.pending)]
    IN  ProcessDeps([st EXCEPT !.pending = Take(@, Len(@) - 1)],
                    DeclAt(st.pkgs, r).DceDeps, 1)

\* the whole loop
RECURSIVE DceLoop(_)
DceLoop(st) == IF st.pending = <<>> THEN st ELSE DceLoop(DceIteration(st))

\* lines 164-202 on the archives ps
RunDce(ps) ==
    DceLoop([pkgs |-> ps, index |-> BuildIndex(ps), pending |-> Unfiltered(ps)])


-----------------------------------------------------------------------------
(* The output.  Every call w.Write(b) appends one entry to out: what b is  *)
(* (kind), the string or code it carries (arg), the list it carries        *)
(* (list), whether removeWhitespace(b, minify) was applied with minify set *)
(* (min), and f.fileSet at the time of the call (fs): the position table   *)
(* the callback is handed for a cookie of b.                               *)

Chunk(kind, arg, list) == [kind |-> kind, arg |-> arg, list |-> list, min |-> FALSE]

\* removeWhitespace(b, minify): strips insignificant whitespace when minify is set
RemoveWhitespace(c, m) == [c EXCEPT !.min = m]

\* the entries of cs as written through the filter whose fileSet is fs
Through(cs, fs) ==
    [n \in 1..Len(cs) |->
       [kind |-> cs[n].kind, arg |-> cs[n].arg, list |-> cs[n].list,
        min |-> cs[n].min, fs |-> fs]]

\* lines 204-206 (mutant: the prelude itself is left out)
PreludeChunksBug(m) ==
    <<Chunk("strict", <<>>, <<>>), Chunk("newline", <<>>, <<>>)>>

PreludeChunks(m) ==
    <<Chunk("strict", <<>>, <<>>),
      RemoveWhitespace(Chunk("prelude", <<>>, <<>>), m),
      Chunk("newline", <<>>, <<>>)>>

\* fmt.Sprintf("%s = $packages[\"%s\"]", imp.VarName, imp.Path)
ImportVar(imp) == imp.VarName \o <<" = $packages[\"">> \o imp.Path \o <<"\"]">>

\* is the declaration written: len(d.DceFilters) == 0 (mutant: always)
IsLiveBug(d) == TRUE

IsLive(d) == Len(d.DceFilters) = 0

\* the names of the "var" statement of a package block
PkgVars(pkg) ==
    <<(<<"$pkg = {}">>)>>
    \o [n \in 1..Len(pkg.Imports) |-> ImportVar(pkg.Imports[n])]
    \o LET with == SelectSeq(pkg.Declarations, LAMBDA d : IsLive(d) /\ d.Var # <<>>)
       IN  [n \in 1..Len(with) |-> with[n].Var]

\* w.Write(d.BodyCode) for the declarations written
PkgBodies(pkg) ==
    LET live == SelectSeq(pkg.Declarations, IsLive)
    IN  [n \in 1..Len(live) |-> Chunk("body", live[n].BodyCode, <<>>)]

\* w.Write(d.InitCode) for the declarations written
PkgInits(pkg) ==
    LET live == SelectSeq(pkg.Declarations, IsLive)
    IN  [n \in 1..Len(live) |-> Chunk("init", live[n].InitCode, <<>>)]

\* lines 282-307 of WritePkgCode
PkgChunks(pkg, m) ==
    <<RemoveWhitespace(Chunk("pkgopen", pkg.ImportPath, <<>>), m),
      RemoveWhitespace(Chunk("vars", <<>>, PkgVars(pkg)), m)>>
    \o PkgBodies(pkg)
    \o <<RemoveWhitespace(Chunk("initopen", <<>>, <<>>), m)>>
    \o PkgInits(pkg)
    \o <<RemoveWhitespace(Chunk("pkgclose", <<>>, <<>>), m),
         Chunk("newline", <<>>, <<>>)>>

\* lines 276-281 of WritePkgCode: the filter's position table after the call
PkgFileSet(pkg, cb, fs) == IF cb /\ pkg.FileSet # "nil" THEN pkg.FileSet ELSE fs

-----------------------------------------------------------------------------
(* Compiler.WriteProgramCode: the interface dispatch tables.  An object of *)
(* a package scope is [Name, Obj, Kind, Methods, PtrMethods]: Obj says     *)
(* whether it is a *types.TypeName, Kind is the underlying type, Methods   *)
(* the method set of the type (the methods of an interface), PtrMethods    *)
(* the method set of a pointer to it.                                      *)

ErrorName == <<"e", "r", "r", "o", "r">>

\* types.New("error").(*types.Named).Obj(): the universe's error, of no package
UniverseError ==
    [Pkg |-> <<>>, Name |-> ErrorName, Kind |-> "interface",
     Methods |-> {"Error"}, PtrMethods |-> {}]

\* scope.Names(): the names of the scope, sorted
ScopeNames(scope) == SortStrings({o.Name : o \in scope})

\* scope.Lookup(name)
Lookup(scope, name) == CHOOSE o \in scope : o.Name = name

\* the type names of one package that go into allTypeNames
PkgTypeNames(pkg, tp, index) ==
    LET scope == tp[pkg.ImportPath]
        names == SelectSeq(ScopeNames(scope),
                     LAMBDA nm : /\ Lookup(scope, nm).Obj = "type"
                                 /\ SymbolId(pkg.ImportPath, nm) \notin DOMAIN index)
    IN  [n \in 1..Len(names) |->
           LET o == Lookup(scope, names[n])
           IN  [Pkg |-> pkg.ImportPath, Name |-> o.Name, Kind |-> o.Kind,
                Methods |-> o.Methods, PtrMethods |-> o.PtrMethods]]

\* lines 214-224: allTypeNames
AllTypeNames(ps, tp, index) ==
    <<UniverseError>> \o Concat([i \in 1..Len(ps) |-> PkgTypeNames(ps[i], tp, index)])

\* types.AssignableTo(otherType, in) for a named type that is no interface
AssignableTo(other, in) == in.Methods \subseteq other.Methods

\* types.AssignableTo(types.NewPointer(otherType), in)
PtrAssignableTo(other, in) == in.Methods \subseteq other.PtrMethods

\* fmt.Sprintf("$packages[\"%s\"].%s", other.Pkg().Path(), other.Name())
PkgRef(t) ==
    <<"$", "p", "a", "c", "k", "a", "g", "e", "s", "[", "\"">> \o t.Pkg
    \o <<"\"", "]", ".">> \o t.Name

\* the two ways a pointer type is referred to: "%s.Ptr" of a struct,
\* "$ptrType(%s)" of any other type
StructPtrRef(t) == PkgRef(t) \o <<".", "P", "t", "r">>

PtrTypeRef(t) == <<"$", "p", "t", "r", "T", "y", "p", "e", "(">> \o PkgRef(t) \o <<")">>

\* the switch on otherType.Underlying() (mutant: every type is handled as a struct)
RefsOfBug(other, in) ==
    IF other.Kind = "interface" THEN {}
    ELSE (IF AssignableTo(other, in) THEN {PkgRef(other)} ELSE {})
         \cup (IF PtrAssignableTo(other, in) THEN {StructPtrRef(other)} ELSE {})

RefsOf(other, in) ==
    CASE other.Kind = "interface" -> {}
      [] other.Kind = "struct" ->
           (IF AssignableTo(other, in) THEN {PkgRef(other)} ELSE {})
           \cup (IF PtrAssignableTo(other, in) THEN {StructPtrRef(other)} ELSE {})
      [] OTHER ->
           (IF AssignableTo(other, in) THEN {PkgRef(other)} ELSE {})
           \cup (IF PtrAssignableTo(other, in) THEN {PtrTypeRef(other)} ELSE {})

\* the map implementedBy of the interface in: its keys
ImplementedBy(in, all) == UNION {RefsOf(all[n], in) : n \in 1..Len(all)}

\* the switch on t.Name()
TargetOf(t) ==
    IF t.Name = ErrorName THEN <<"$", "e", "r", "r", "o", "r">> ELSE PkgRef(t)

\* does t get a table: its underlying type is an interface that is not empty
HasTable(t) == t.Kind = "interface" /\ t.Methods # {}

\* lines 225-266: one w.Write per interface of allTypeNames
InterfaceChunks(all, m) ==
    LET ins == SelectSeq(all, HasTable)
    IN  [n \in 1..Len(ins) |->
           RemoveWhitespace(
               Chunk("implementedBy", TargetOf(ins[n]),
                     SortStrings(ImplementedBy(ins[n], all))), m)]

\* line 269
InitCallChunk(pkg) == Chunk("initcall", pkg.ImportPath, <<>>)

\* line 272
MainChunk(path) == Chunk("main", path, <<>>)

\* the stage that follows a stage of lines 208-272 (mutant: the init calls are
\* written before the interface tables)
StageAfterBug(stage) ==
    CASE stage = "packages" -> "inits"
      [] stage = "inits" -> "interfaces"
      [] stage = "interfaces" -> "main"
      [] OTHER -> "done"

StageAfter(stage) ==
    CASE stage = "packages" -> "interfaces"
      [] stage = "interfaces" -> "inits"
      [] stage = "inits" -> "main"
      [] OTHER -> "done"

-----------------------------------------------------------------------------
(* The parts of the state a specification does not use stay as they are    *)
(* here.                                                                   *)

NoLoad == allocated = 0 /\ archive = <<>> /\ data = <<>> /\ loaded = <<>>

NoDeps == Dependencies = <<>> /\ startDependencies = <<>> /\ added = <<>>

NoLink ==
    /\ pkgs = <<>>
    /\ mainPkgPath = <<>>
    /\ minify = FALSE
    /\ input = <<>>
    /\ declsByObject = <<>>
    /\ pendingDecls = <<>>
    /\ idx = 0
    /\ out = <<>>
    /\ fresh = <<>>
    /\ firstCall = <<>>
    /\ round = 0
    /\ pushed = <<>>
    /\ consumed = <<>>

NoFilter ==
    /\ MappingCallback = FALSE
    /\ fileSet = "nil"
    /\ line = 0
    /\ column = 0
    /\ sink = <<>>
    /\ room = -1
    /\ calls = <<>>
    /\ stream = <<>>
    /\ writes = <<>>
    /\ ret = [n |-> 0, err |-> FALSE]
    /\ sinkFailed = FALSE
    /\ panicked = FALSE

-----------------------------------------------------------------------------
(* The steps of Compiler.WriteProgramCode.                                 *)

filterVars == <<line, column, sink, room, calls, stream, writes, ret, sinkFailed,
                panicked, MappingCallback>>

\* lines 164-178: the index and the first stack
LinkStart ==
    /\ pc = "start"
    /\ input' = pkgs
    /\ declsByObject' = BuildIndex(pkgs)
    /\ pendingDecls' = Unfiltered(pkgs)
    /\ pushed' = Unfiltered(pkgs)
    /\ consumed' = <<>>
    /\ pc' = "dce"
    /\ UNCHANGED <<pkgs, typesPackages, mainPkgPath, minify, idx, out, fileSet>>
    /\ UNCHANGED <<fresh, firstCall, round>>
    /\ UNCHANGED <<filterVars, loadVars, depVars>>

\* lines 180-202: one declaration is popped and its dependencies are released
DceStep ==
    /\ pc = "dce"
    /\ pendingDecls # <<>>
    /\ LET st == DceIteration([pkgs |-> pkgs, index |-> declsByObject,
                               pending |-> pendingDecls])
       IN  /\ pkgs' = st.pkgs
           /\ declsByObject' = st.index
           /\ pendingDecls' = st.pending
           /\ pushed' = pushed \o Drop(st.pending, Len(pendingDecls) - 1)
           /\ consumed' = consumed \o SortStrings((DOMAIN declsByObject) \ DOMAIN st.index)
    /\ UNCHANGED <<typesPackages, mainPkgPath, minify, input, pc, idx, out, fileSet>>
    /\ UNCHANGED <<fresh, firstCall, round>>
    /\ UNCHANGED <<filterVars, loadVars, depVars>>

\* lines 204-206, once the stack is empty
WritePrelude ==
    /\ pc = "dce"
    /\ pendingDecls = <<>>
    /\ out' = out \o Through(PreludeChunks(minify), fileSet)
    /\ pc' = "packages"
    /\ idx' = 1
    /\ UNCHANGED <<pkgs, typesPackages, mainPkgPath, minify, input, declsByObject,
                   pendingDecls, fileSet>>
    /\ UNCHANGED histVars
    /\ UNCHANGED <<filterVars, loadVars, depVars>>

\* lines 209-211 and WritePkgCode: the block of pkgs[idx]
WritePackage ==
    /\ pc = "packages"
    /\ idx <= Len(pkgs)
    /\ fileSet' = PkgFileSet(pkgs[idx], MappingCallback, fileSet)
    /\ out' = out \o Through(PkgChunks(pkgs[idx], minify), fileSet')
    /\ idx' = IF idx = Len(pkgs) THEN 1 ELSE idx + 1
    /\ pc' = IF idx = Len(pkgs) THEN StageAfter("packages") ELSE pc
    /\ UNCHANGED <<pkgs, typesPackages, mainPkgPath, minify, input, declsByObject,
                   pendingDecls>>
    /\ UNCHANGED histVars
    /\ UNCHANGED <<filterVars, loadVars, depVars>>

\* lines 213-266: every interface table
WriteInterfaces ==
    /\ pc = "interfaces"
    /\ out' = out \o Through(InterfaceChunks(
                                 AllTypeNames(pkgs, typesPackages, declsByObject),
                                 minify), fileSet)
    /\ pc' = StageAfter("interfaces")
    /\ idx' = 1
    /\ UNCHANGED <<pkgs, typesPackages, mainPkgPath, minify, input, declsByObject,
                   pendingDecls, fileSet>>
    /\ UNCHANGED histVars
    /\ UNCHANGED <<filterVars, loadVars, depVars>>

\* lines 268-270: the init call of pkgs[idx]
WriteInit ==
    /\ pc = "inits"
    /\ idx <= Len(pkgs)
    /\ out' = out \o Through(<<InitCallChunk(pkgs[idx])>>, fileSet)
    /\ idx' = IF idx = Len(pkgs) THEN 1 ELSE idx + 1
    /\ pc' = IF idx = Len(pkgs) THEN StageAfter("inits") ELSE pc
    /\ UNCHANGED <<pkgs, typesPackages, mainPkgPath, minify, input, declsByObject,
                   pendingDecls, fileSet>>
    /\ UNCHANGED histVars
    /\ UNCHANGED <<filterVars, loadVars, depVars>>

\* line 272: the entry call, and WriteProgramCode returns
WriteMain ==
    /\ pc = "main"
    /\ out' = out \o Through(<<MainChunk(mainPkgPath)>>, fileSet)
    /\ pc' = StageAfter("main")
    /\ UNCHANGED <<pkgs, typesPackages, mainPkgPath, minify, input, declsByObject,
                   pendingDecls, idx, fileSet>>
    /\ UNCHANGED histVars
    /\ UNCHANGED <<filterVars, loadVars, depVars>>


-----------------------------------------------------------------------------
(* The programs WriteProgramCode is called with.                           *)

Digit(n) == <<"0", "1", "2", "3", "4", "5", "6", "7", "8", "9">>[n + 1]

Min(a, b) == IF a < b THEN a ELSE b

\* the sequences over S of length n at most
RECURSIVE SeqsUpTo(_, _)
SeqsUpTo(S, n) ==
    IF n <= 0 THEN {<<>>}
    ELSE LET shorter == SeqsUpTo(S, n - 1)
         IN  shorter \cup {<<x>> \o t : x \in S, t \in {u \in shorter : Len(u) = n - 1}}

\* the k-th declaration of the i-th archive: its code is its own, every second
\* declaration has no Var
MkDecl(i, k, var, filters, deps) ==
    [Var |-> var,
     BodyCode |-> <<"b", Digit(i), Digit(k)>>,
     InitCode |-> <<"i", Digit(i), Digit(k)>>,
     DceFilters |-> filters,
     DceDeps |-> deps]

DefaultVar(i, k) == IF k % 2 = 1 THEN <<"v", Digit(i), Digit(k)>> ELSE <<>>

\* an Archive whose declarations have the filters and dependencies of shapes
MkArchive(i, path, shapes, imports, fs) ==
    [ImportPath |-> path,
     Imports |-> imports,
     Declarations |-> [k \in 1..Len(shapes) |->
                         MkDecl(i, k, DefaultVar(i, k), shapes[k].f, shapes[k].d)],
     FileSet |-> fs]

\* the filters f and dependencies d a declaration can have with e entries at most
DeclShapes(names, ids, e) ==
    {sh \in [f : SeqsUpTo(names, Min(MaxFilters, e)),
             d : SeqsUpTo(ids, Min(MaxDeps, e))] : Len(sh.f) + Len(sh.d) <= e}

\* the sequences of n declarations with e entries at most
RECURSIVE ShapeSeqs(_, _, _, _)
ShapeSeqs(names, ids, n, e) ==
    IF n = 0 THEN {<<>>}
    ELSE UNION {{<<sh>> \o rest :
                   rest \in ShapeSeqs(names, ids, n - 1, e - Len(sh.f) - Len(sh.d))} :
                sh \in DeclShapes(names, ids, e)}

PathP == <<"p">>

PathQ == <<"q">>

NameF == <<"f">>

NameG == <<"g">>

PathC == <<"p", ":", "f">>

NameFG == <<"f", ":", "g">>

\* the objects of the package scopes
Object(name, obj, kind, methods, ptrMethods) ==
    [Name |-> name, Obj |-> obj, Kind |-> kind, Methods |-> methods,
     PtrMethods |-> ptrMethods]

\* the programs of one package at path with up to n declarations and e entries,
\* the objects of scope in its scope
SinglePrograms(path, names, ids, n, e, scope) ==
    {[pkgs |-> <<MkArchive(1, path, ss, <<>>, "fs1")>>,
      types |-> (path :> scope),
      main |-> path, minify |-> FALSE, cb |-> TRUE] :
     ss \in UNION {ShapeSeqs(names, ids, k, e) : k \in 0..n}}

\* the programs of two packages with a and n - a declarations, the second
\* importing the first
PairPrograms(path1, path2, names, ids, n, a, e) ==
    {[pkgs |-> <<MkArchive(1, path1, Take(ss, a), <<>>, "fs1"),
                 MkArchive(2, path2, Drop(ss, a),
                           <<[Path |-> path1, VarName |-> <<"x">>]>>, "nil")>>,
      types |-> (path1 :> {}) @@ (path2 :> {}),
      main |-> path2, minify |-> TRUE, cb |-> TRUE] :
     ss \in ShapeSeqs(names, ids, n, e)}

\* one package, up to MaxDecls declarations: chains, declarations with two
\* filters, repeated filters and dependencies, self references, cycles, ids that
\* guard nothing
DcePrograms ==
    SinglePrograms(PathP, {NameF, NameG},
                   {SymbolId(PathP, NameF), SymbolId(PathP, NameG)},
                   MaxDecls, MaxEntries, {})

\* two packages with ids of both
CrossPrograms ==
    UNION {UNION {PairPrograms(PathP, PathQ, {NameF, NameG},
                               {SymbolId(PathP, NameF), SymbolId(PathQ, NameF),
                                SymbolId(PathQ, NameG)},
                               n, a, MaxEntries - 1) :
                  a \in 1..(n - 1)} : n \in 2..MaxDecls}

\* package paths and names that contain a colon; "p" with "f:g" and "p:f" with
\* "g" make the same id; the package "p:f" has a type named f
ColonPrograms ==
    SinglePrograms(PathP, {NameF, NameFG},
                   {SymbolId(PathP, NameF), SymbolId(PathP, NameFG)},
                   MaxDecls - 1, MaxEntries - 1, {})
    \cup SinglePrograms(PathC, {NameF, NameG},
                        {SymbolId(PathC, NameF), SymbolId(PathC, NameG)},
                        MaxDecls - 1, MaxEntries - 1,
                        {Object(NameF, "type", "interface", {"M"}, {})})
    \cup PairPrograms(PathP, PathC, {NameG, NameFG},
                      {SymbolId(PathP, NameG), SymbolId(PathC, NameG)},
                      2, 1, MaxEntries - 1)

\* what the name "I" can be: an interface with one method, the empty interface,
\* an interface with the method of error
ShapesI ==
    {<<"type", "interface", {"M"}, {}>>, <<"type", "interface", {}, {}>>,
     <<"type", "interface", {"Error"}, {}>>}

\* what the name "S" can be: a struct with no method, with M on the pointer
\* only, with M on the value
ShapesS ==
    {<<"type", "struct", {}, {}>>, <<"type", "struct", {}, {"M"}>>,
     <<"type", "struct", {"M"}, {"M"}>>}

\* what the name "T" can be: a type that is no struct with M and Error on the
\* value, or with M on the pointer only; an interface with M and Error; a
\* function
ShapesT ==
    {<<"type", "other", {"M", "Error"}, {"M", "Error"}>>,
     <<"type", "other", {}, {"M"}>>,
     <<"type", "interface", {"M", "Error"}, {}>>,
     <<"func", "other", {}, {}>>}

\* what a second package can declare under the name "error": an interface
ShapesE == {<<"type", "interface", {"M"}, {}>>}

NameI == <<"I">>

NameS == <<"S">>

NameT == <<"T">>

\* the declaration of a package level type or function: its name is its first
\* filter
NamedDecl(i, k, name, more) == MkDecl(i, k, name, <<name>> \o more, <<>>)

\* a package at path with a function without filters that uses the names of
\* used, the types I, S, T, and (with e) a second package that declares "error";
\* with two, the declaration of T is also filtered by the name I
TypeProgram(path, si, ss, st, e, used, cb, two) ==
    LET ids == {SymbolId(path, nm) : nm \in used \ {ErrorName}}
                 \cup {SymbolId(PathQ, nm) : nm \in used \cap {ErrorName}}
        first ==
          [ImportPath |-> path, Imports |-> <<>>,
           Declarations |-> <<MkDecl(1, 1, <<>>, <<>>, SortStrings(ids)),
                              NamedDecl(1, 2, NameI, <<>>),
                              NamedDecl(1, 3, NameS, <<>>),
                              NamedDecl(1, 4, NameT,
                                        IF two THEN <<NameI>> ELSE <<>>)>>,
           FileSet |-> "fs1"]
        second ==
          [ImportPath |-> PathQ, Imports |-> <<>>,
           Declarations |-> <<NamedDecl(2, 1, ErrorName, <<>>)>>,
           FileSet |-> "fs2"]
        scope1 == {Object(NameI, si[1], si[2], si[3], si[4]),
                   Object(NameS, ss[1], ss[2], ss[3], ss[4]),
                   Object(NameT, st[1], st[2], st[3], st[4])}
    IN  IF e = <<>>
        THEN [pkgs |-> <<first>>, types |-> (path :> scope1),
              main |-> path, minify |-> FALSE, cb |-> cb]
        ELSE [pkgs |-> <<first, second>>,
              types |-> (path :> scope1)
                        @@ (PathQ :> {Object(ErrorName, e[1], e[2], e[3], e[4])}),
              main |-> path, minify |-> FALSE, cb |-> cb]

TypeProgramsAt(path) ==
    {TypeProgram(path, si, ss, st, <<>>, used, cb, two) :
       si \in ShapesI, ss \in ShapesS, st \in ShapesT,
       used \in SUBSET {NameI, NameS, NameT}, cb \in BOOLEAN, two \in BOOLEAN}
    \cup {TypeProgram(path, si, ss, st, e, used, cb, two) :
            si \in ShapesI, ss \in ShapesS, st \in ShapesT, e \in ShapesE,
            used \in SUBSET {NameI, NameS, NameT, ErrorName}, cb \in BOOLEAN,
            two \in BOOLEAN}

\* programs with package level types, at a path without and with a colon
TypePrograms == TypeProgramsAt(PathP) \cup TypeProgramsAt(PathC)

Programs == DcePrograms \cup CrossPrograms \cup ColonPrograms \cup TypePrograms

\* a Compiler whose registry holds the packages, a new SourceMapFilter, and the
\* arguments of one call of WriteProgramCode
InitWith(programs) ==
    /\ \E prog \in programs :
         /\ pkgs = prog.pkgs
         /\ input = prog.pkgs
         /\ typesPackages = prog.types
         /\ mainPkgPath = prog.main
         /\ minify = prog.minify
         /\ MappingCallback = prog.cb
    /\ declsByObject = <<>>
    /\ pendingDecls = <<>>
    /\ pc = "start"
    /\ idx = 0
    /\ out = <<>>
    /\ fresh = pkgs
    /\ firstCall = <<>>
    /\ round = 1
    /\ pushed = <<>>
    /\ consumed = <<>>
    /\ NoLoad
    /\ NoDeps
    /\ fileSet = "nil"
    /\ line = 0
    /\ column = 0
    /\ sink = <<>>
    /\ room = -1
    /\ calls = <<>>
    /\ stream = <<>>
    /\ writes = <<>>
    /\ ret = [n |-> 0, err |-> FALSE]
    /\ sinkFailed = FALSE
    /\ panicked = FALSE

Init == InitWith(Programs)

Next ==
    \/ LinkStart
    \/ DceStep
    \/ WritePrelude
    \/ WritePackage
    \/ WriteInterfaces
    \/ WriteInit
    \/ WriteMain

Spec == Init /\ [][Next]_vars


\* WriteProgramCode up to its first write: the loop of lines 180-202 runs as long
\* as the stack is not empty, and nothing else can stop it
NextDce == LinkStart \/ DceStep \/ WritePrelude

\* one package of two declarations at most: self references, cycles, repeated
\* filters and dependencies
LoopPrograms ==
    SinglePrograms(PathP, {NameF, NameG},
                   {SymbolId(PathP, NameF), SymbolId(PathP, NameG)},
                   MaxDecls - 1, MaxEntries, {})

InitDce == InitWith(LoopPrograms)

SpecDce == InitDce /\ [][NextDce]_vars /\ WF_vars(NextDce)

-----------------------------------------------------------------------------
(* WriteProgramCode called again on archives that were linked before.      *)

\* the elements of a sequence
Range(s) == {s[n] : n \in 1..Len(s)}

\* the entries of s whose index is in sel, in their order
SubList(s, sel) ==
    LET ix == SelectSeq([n \in 1..Len(s) |-> n], LAMBDA n : n \in sel)
    IN  [n \in 1..Len(ix) |-> s[ix[n]]]

\* the BodyCode of the declarations of ps without filters
LiveCode(ps) ==
    {DeclAt(ps, r).BodyCode : r \in {x \in Range(AllDecls(ps)) :
                                       DeclAt(ps, x).DceFilters = <<>>}}

\* the second call of WriteProgramCode, with a new SourceMapFilter: on the same
\* list of archives, or on a list made of some of them; the archives are the
\* objects the first call has drained
LinkAgain ==
    /\ pc = "done"
    /\ round = 1
    /\ \E sel \in (SUBSET (1..Len(pkgs))) \ {{}} :
         /\ pkgs' = SubList(pkgs, sel)
         /\ input' = SubList(pkgs, sel)
         /\ fresh' = SubList(fresh, sel)
         /\ mainPkgPath' = IF sel = 1..Len(pkgs) THEN mainPkgPath
                           ELSE SubList(pkgs, sel)[Cardinality(sel)].ImportPath
         /\ firstCall' = [out |-> out,
                          live |-> LiveCode(pkgs),
                          candidates |-> AllTypeNames(pkgs, typesPackages, declsByObject),
                          same |-> sel = 1..Len(pkgs)]
    /\ round' = 2
    /\ pc' = "start"
    /\ out' = <<>>
    /\ fileSet' = "nil"
    /\ declsByObject' = <<>>
    /\ pendingDecls' = <<>>
    /\ idx' = 0
    /\ pushed' = <<>>
    /\ consumed' = <<>>
    /\ UNCHANGED <<typesPackages, minify>>
    /\ UNCHANGED <<filterVars, loadVars, depVars>>

RelinkPrograms == Programs

InitRelink == InitWith(RelinkPrograms)

NextRelink == Next \/ LinkAgain

SpecRelink == InitRelink /\ [][NextRelink]_vars

-----------------------------------------------------------------------------
(* Compiler.MarshalArchive and the first step of Compiler.UnmarshalArchive: *)
(* asn1.Marshal and asn1.Unmarshal of an Archive, in DER.  A slice is      *)
(* [nil, b]: whether it is nil, and its entries; a string is the sequence  *)
(* of its bytes.  The encoding is a sequence of bytes, computed tag by tag *)
(* and read back by a parser, so that what comes back is not assumed.      *)

NilSlice == [nil |-> TRUE, b |-> <<>>]

Slice(b) == [nil |-> FALSE, b |-> b]

\* the universal tags of the fields of an Archive
TagOctetString == 4

TagUTF8String == 12

TagPrintableString == 19

TagSequence == 48

\* the first length that takes the long form, and the long form with one byte
LongForm == 128

LongFormOneByte == 129

\* the characters of a PrintableString, as asn1 takes them: letters, digits,
\* space and ' ( ) * + , - . / : = ?
IsPrintable(c) ==
    \/ c \in 97..122
    \/ c \in 65..90
    \/ c \in 48..57
    \/ c \in {32, 39, 40, 41, 42, 43, 44, 45, 46, 47, 58, 61, 63}

\* the length octets of a value of n bytes (n < 256)
EncodeLength(n) == IF n < LongForm THEN <<n>> ELSE <<LongFormOneByte, n>>

\* tag, length, content
Tlv(tag, content) == <<tag>> \o EncodeLength(Len(content)) \o content

\* a []byte (PkgPath, DepId): an OCTET STRING; a nil slice has no bytes
MarshalBytes(x) == Tlv(TagOctetString, x.b)

\* a string: a PrintableString when its characters allow it, else a UTF8String
MarshalString(str) ==
    Tlv(IF \A n \in 1..Len(str) : IsPrintable(str[n])
        THEN TagPrintableString ELSE TagUTF8String, str)

\* a slice of anything else: a SEQUENCE of its entries, given encoded
MarshalSequence(encoded) == Tlv(TagSequence, Concat(encoded))

\* []DepId, []PkgPath
MarshalIds(x) == MarshalSequence([n \in 1..Len(x.b) |-> MarshalBytes(x.b[n])])

\* []string
MarshalStrings(x) == MarshalSequence([n \in 1..Len(x.b) |-> MarshalString(x.b[n])])

\* PkgImport
MarshalImport(imp) ==
    Tlv(TagSequence, MarshalBytes(imp.Path) \o MarshalString(imp.VarName))

\* Decl
MarshalDecl(d) ==
    Tlv(TagSequence,
        MarshalString(d.Var) \o MarshalBytes(d.BodyCode) \o MarshalBytes(d.InitCode)
        \o MarshalIds(d.DceFilters)
        \o MarshalIds(d.DceDeps))

\* asn1.Marshal(*a)
MarshalArchive(a) ==
    Tlv(TagSequence,
        MarshalBytes(a.ImportPath) \o MarshalBytes(a.GcData)
        \o MarshalIds(a.Dependencies)
        \o MarshalSequence([n \in 1..Len(a.Imports.b) |-> MarshalImport(a.Imports.b[n])])
        \o MarshalSequence([n \in 1..Len(a.Declarations.b) |->
                               MarshalDecl(a.Declarations.b[n])])
        \o MarshalStrings(a.Tests)
        \o MarshalBytes(a.FileSet))

\* a result of the parser: ok and the value, or not ok
Ok(v) == [ok |-> TRUE, v |-> <<v>>]

Failed == [ok |-> FALSE, v |-> <<>>]

ValueOf(r) == r.v[1]

\* the first tag-length-value of bytes: [tag, content] and the bytes behind it
ParseTlv(bytes) ==
    IF Len(bytes) < 2 THEN Failed
    ELSE LET long == bytes[2] >= LongForm
             hdr  == IF long THEN 3 ELSE 2
             n    == IF long /\ Len(bytes) >= 3 THEN bytes[3] ELSE bytes[2]
         IN  IF long /\ (bytes[2] # LongFormOneByte \/ Len(bytes) < 3 \/ n < LongForm)
             THEN Failed
             ELSE IF Len(bytes) < hdr + n THEN Failed
             ELSE Ok([tag |-> bytes[1],
                      content |-> SubSeq(bytes, hdr + 1, hdr + n),
                      rest |-> Drop(bytes, hdr + n)])

\* the tag-length-values that bytes is made of, in order
RECURSIVE ParseAll(_)
ParseAll(bytes) ==
    IF bytes = <<>> THEN Ok(<<>>)
    ELSE LET h == ParseTlv(bytes) IN
         IF ~h.ok THEN Failed
         ELSE LET t == ParseAll(ValueOf(h).rest) IN
              IF ~t.ok THEN Failed
              ELSE Ok(<<[tag |-> ValueOf(h).tag, content |-> ValueOf(h).content]>>
                      \o ValueOf(t))

\* into a []byte: reflect.MakeSlice of the length read, never nil
UnmarshalBytes(e) ==
    IF e.tag = TagOctetString THEN Ok(Slice(e.content)) ELSE Failed

\* into a string
UnmarshalString(e) ==
    IF e.tag = TagUTF8String THEN Ok(e.content)
    ELSE IF e.tag = TagPrintableString
              /\ \A n \in 1..Len(e.content) : IsPrintable(e.content[n])
         THEN Ok(e.content)
    ELSE Failed

\* the entries of a SEQUENCE
Entries(e) == IF e.tag # TagSequence THEN Failed ELSE ParseAll(e.content)

\* into a slice of anything else, given what its entries were read into: a
\* slice of the number of entries read, never nil
Collect(rs) ==
    IF \E n \in 1..Len(rs) : ~rs[n].ok THEN Failed
    ELSE Ok(Slice([n \in 1..Len(rs) |-> ValueOf(rs[n])]))

\* into []DepId, []PkgPath
UnmarshalIds(e) ==
    LET es == Entries(e) IN
    IF ~es.ok THEN Failed
    ELSE Collect([n \in 1..Len(ValueOf(es)) |-> UnmarshalBytes(ValueOf(es)[n])])

\* into []string
UnmarshalStrings(e) ==
    LET es == Entries(e) IN
    IF ~es.ok THEN Failed
    ELSE Collect([n \in 1..Len(ValueOf(es)) |-> UnmarshalString(ValueOf(es)[n])])

\* the entries of a SEQUENCE that is read into a struct of n fields
Fields(e, n) ==
    LET es == Entries(e) IN
    IF ~es.ok THEN Failed
    ELSE IF Len(ValueOf(es)) < n THEN Failed ELSE es

UnmarshalImport(e) ==
    LET fs == Fields(e, 2) IN
    IF ~fs.ok THEN Failed
    ELSE LET path == UnmarshalBytes(ValueOf(fs)[1])
             name == UnmarshalString(ValueOf(fs)[2])
         IN  IF ~path.ok \/ ~name.ok THEN Failed
             ELSE Ok([Path |-> ValueOf(path), VarName |-> ValueOf(name)])

UnmarshalDecl(e) ==
    LET fs == Fields(e, 5) IN
    IF ~fs.ok THEN Failed
    ELSE LET var     == UnmarshalString(ValueOf(fs)[1])
             body    == UnmarshalBytes(ValueOf(fs)[2])
             init    == UnmarshalBytes(ValueOf(fs)[3])
             filters == UnmarshalIds(ValueOf(fs)[4])
             deps    == UnmarshalIds(ValueOf(fs)[5])
         IN  IF ~var.ok \/ ~body.ok \/ ~init.ok \/ ~filters.ok \/ ~deps.ok THEN Failed
             ELSE Ok([Var |-> ValueOf(var), BodyCode |-> ValueOf(body),
                      InitCode |-> ValueOf(init), DceFilters |-> ValueOf(filters),
                      DceDeps |-> ValueOf(deps)])

\* asn1.Unmarshal(data, &a); bytes behind the value are not looked at
UnmarshalData(bytes) ==
    LET top == ParseTlv(bytes) IN
    IF ~top.ok THEN Failed
    ELSE LET fs == Fields(ValueOf(top), 7) IN
    IF ~fs.ok THEN Failed
    ELSE LET path    == UnmarshalBytes(ValueOf(fs)[1])
             gc      == UnmarshalBytes(ValueOf(fs)[2])
             deps    == UnmarshalIds(ValueOf(fs)[3])
             is      == Entries(ValueOf(fs)[4])
             imports == IF ~is.ok THEN Failed
                        ELSE Collect([n \in 1..Len(ValueOf(is)) |->
                                        UnmarshalImport(ValueOf(is)[n])])
             ds      == Entries(ValueOf(fs)[5])
             decls   == IF ~ds.ok THEN Failed
                        ELSE Collect([n \in 1..Len(ValueOf(ds)) |->
                                        UnmarshalDecl(ValueOf(ds)[n])])
             tests   == UnmarshalStrings(ValueOf(fs)[6])
             fset    == UnmarshalBytes(ValueOf(fs)[7])
         IN  IF ~path.ok \/ ~gc.ok \/ ~deps.ok \/ ~imports.ok \/ ~decls.ok
                \/ ~tests.ok \/ ~fset.ok
             THEN Failed
             ELSE Ok([ImportPath |-> ValueOf(path), GcData |-> ValueOf(gc),
                      Dependencies |-> ValueOf(deps), Imports |-> ValueOf(imports),
                      Declarations |-> ValueOf(decls), Tests |-> ValueOf(tests),
                      FileSet |-> ValueOf(fset)])

-----------------------------------------------------------------------------
(* One Compiler from New on: NewEmptyTypesPackage, MarshalArchive,         *)
(* UnmarshalArchive and WriteProgramCode, in any order.  Here an entry of  *)
(* typesPackages is the *types.Package it points to, named by the number   *)
(* of its allocation; types.Unsafe is number 0.                            *)

MaxPackages == 2

UnsafePath == <<"u", "n", "s", "a", "f", "e">>

\* the paths and ids the calls are made with
LoadPaths == {PathP, PathQ}

\* the strings "p", "f", "p:f" and "$f" as bytes, and bytes that are not ASCII
BytesP == <<112>>

BytesF == <<102>>

BytesId == <<112, 58, 102>>

BytesDollarF == <<36, 102>>

BytesHigh == <<112, 200>>

\* bytes whose length takes the long form
BytesLong == [n \in 1..130 |-> 7]

ArchiveOf(path, gc, deps, imports, decls, tests, fset) ==
    [ImportPath |-> Slice(path), GcData |-> gc, Dependencies |-> deps,
     Imports |-> imports, Declarations |-> decls, Tests |-> tests,
     FileSet |-> fset]

\* values of a []byte field: nil, empty, with bytes, and long
ByteSlices == {NilSlice, Slice(<<>>), Slice(BytesHigh), Slice(BytesLong)}

\* values of a list of ids: nil, empty, one entry, two entries in either order
IdLists ==
    {NilSlice, Slice(<<>>), Slice(<<Slice(BytesP)>>),
     Slice(<<Slice(BytesP), Slice(BytesId)>>),
     Slice(<<Slice(BytesId), Slice(BytesP)>>)}

\* values of a string: empty, printable, and with a character that is not
Strings == {<<>>, BytesF, BytesDollarF}

ArchiveDecls ==
    {[Var |-> v, BodyCode |-> b, InitCode |-> Slice(BytesF),
      DceFilters |-> fs, DceDeps |-> Slice(<<Slice(BytesId)>>)] :
        v \in Strings, b \in {NilSlice, Slice(BytesF)},
        fs \in {NilSlice, Slice(<<Slice(BytesF)>>)}}

\* the archives that are marshalled: every field takes each of its kinds of
\* value, a few fields at a time
Archives ==
    {ArchiveOf(BytesP, gc, Slice(<<>>), Slice(<<>>), Slice(<<>>), Slice(<<>>), fset) :
        gc \in ByteSlices, fset \in ByteSlices}
    \union
    {ArchiveOf(BytesP, Slice(BytesF), deps,
               Slice(<<[Path |-> Slice(BytesP), VarName |-> name]>>),
               Slice(<<>>), tests, Slice(BytesF)) :
        deps \in IdLists, name \in Strings,
        tests \in {NilSlice, Slice(<<BytesF, BytesDollarF>>)}}
    \union
    {ArchiveOf(BytesP, Slice(BytesF), Slice(<<>>), imports, Slice(<<d>>),
               Slice(<<>>), Slice(BytesF)) :
        imports \in {NilSlice}, d \in ArchiveDecls}
    \union
    {ArchiveOf(BytesP, Slice(BytesF), Slice(<<>>), Slice(<<>>), decls,
               Slice(<<>>), Slice(BytesF)) :
        decls \in {NilSlice} \union
                  {Slice(<<d, e>>) : d \in ArchiveDecls,
                                     e \in {x \in ArchiveDecls :
                                               /\ x.Var = BytesF
                                               /\ x.BodyCode = NilSlice
                                               /\ x.DceFilters # NilSlice}}}

\* what UnmarshalArchive may be handed when data was written: the data, the
\* data without its last byte, its first byte alone, and the data with a byte
\* behind it
Readings(bytes) ==
    {bytes, Take(bytes, Len(bytes) - 1), Take(bytes, 1), bytes \o <<0>>}

\* lines 155-157: the registry of a new Compiler holds types.Unsafe
InitLoad ==
    /\ pc = "load"
    /\ typesPackages = (UnsafePath :> 0)
    /\ NoLoad
    /\ NoLink
    /\ NoDeps
    /\ NoFilter

\* lines 159-161: t.typesPackages[path] = types.NewPackage(path, path)
NewEmptyTypesPackage ==
    /\ pc = "load"
    /\ allocated < MaxPackages
    /\ \E path \in LoadPaths :
         typesPackages' = (path :> allocated + 1) @@ typesPackages
    /\ allocated' = allocated + 1
    /\ UNCHANGED <<archive, data, loaded>>
    /\ UNCHANGED <<pkgs, mainPkgPath, minify, input, declsByObject, pendingDecls,
                   pc, idx, out, histVars, fileSet, filterVars, depVars>>

\* lines 326-328: the bytes of an archive; one archive is written in a behaviour
MarshalArchiveCall ==
    /\ pc = "load"
    /\ data = <<>>
    /\ \E a \in Archives :
         /\ archive' = a
         /\ data' = MarshalArchive(a)
    /\ loaded' = <<>>
    /\ UNCHANGED <<allocated, linkVars, fileSet, filterVars, depVars>>

\* lines 310-324: an archive is read from bytes under an id.  ImportData reads
\* GcData, which this model does not look into: it fails or gives the package
\* of the id, the registered one when there is one
UnmarshalArchiveCall ==
    /\ pc = "load"
    /\ data # <<>>
    /\ \E bytes \in Readings(data) :
         LET a == UnmarshalData(bytes) IN
         \E id \in LoadPaths, imported \in BOOLEAN :
         LET old == id \in DOMAIN typesPackages
         IN  IF ~a.ok
             THEN /\ loaded' = [bytes |-> bytes, id |-> id, err |-> "asn1", a |-> <<>>]
                  /\ UNCHANGED <<typesPackages, allocated>>
             ELSE IF ~imported
             THEN /\ loaded' = [bytes |-> bytes, id |-> id, err |-> "import", a |-> <<>>]
                  /\ UNCHANGED <<typesPackages, allocated>>
             ELSE /\ old \/ allocated < MaxPackages
                  /\ loaded' = [bytes |-> bytes, id |-> id, err |-> "nil", a |-> a.v]
                  /\ typesPackages' =
                       (id :> IF old THEN typesPackages[id] ELSE allocated + 1)
                       @@ typesPackages
                  /\ allocated' = IF old THEN allocated ELSE allocated + 1
    /\ UNCHANGED <<archive, data>>
    /\ UNCHANGED <<pkgs, mainPkgPath, minify, input, declsByObject, pendingDecls,
                   pc, idx, out, histVars, fileSet, filterVars, depVars>>

\* lines 163-273 with no package to link: the registry is only read (line 216)
WriteProgramCodeCall ==
    /\ pc = "load"
    /\ round < 1
    /\ round' = round + 1
    /\ UNCHANGED <<pkgs, typesPackages, mainPkgPath, minify, input, declsByObject,
                   pendingDecls, pc, idx, out, fresh, firstCall, pushed, consumed>>
    /\ UNCHANGED <<fileSet, filterVars, depVars, loadVars>>

NextLoad ==
    \/ NewEmptyTypesPackage
    \/ MarshalArchiveCall
    \/ UnmarshalArchiveCall
    \/ WriteProgramCodeCall

SpecLoad == InitLoad /\ [][NextLoad]_vars

-----------------------------------------------------------------------------
(* Archive.AddDependency and Archive.AddDependenciesOf, on two archives.   *)

PathR == <<"r">>

DepPaths == {PathP, PathQ, PathR}

ArchiveNames == {"a", "b"}

\* does the loop of lines 343-347 find path
HasDependency(deps, path) == \E n \in 1..Len(deps) : deps[n] = path

\* lines 342-349 (mutant: the path is appended without the search)
AddDependencyBug(deps, path) == Append(deps, path)

AddDependency(deps, path) ==
    IF HasDependency(deps, path) THEN deps ELSE Append(deps, path)

\* lines 351-355: the range over other.Dependencies, from its n-th entry on;
\* other is the slice as it was when the loop began
RECURSIVE AddDependenciesOf(_, _, _)
AddDependenciesOf(deps, other, n) ==
    IF n > Len(other) THEN deps
    ELSE AddDependenciesOf(AddDependency(deps, other[n]), other, n + 1)

\* the number of paths handed to AddDependency so far
NumAdded == Len(added["a"]) + Len(added["b"])

\* x.AddDependency(path)
AddDependencyCall ==
    /\ pc = "deps"
    /\ NumAdded < MaxAdded
    /\ \E x \in ArchiveNames, path \in DepPaths :
         /\ Dependencies' = [Dependencies EXCEPT ![x] = AddDependency(@, path)]
         /\ added' = [added EXCEPT ![x] = Append(@, path)]
    /\ UNCHANGED <<startDependencies, linkVars, loadVars, filterVars, fileSet>>

\* x.AddDependenciesOf(y); y may be x
AddDependenciesOfCall ==
    /\ pc = "deps"
    /\ \E x \in ArchiveNames, y \in ArchiveNames :
         /\ NumAdded + Len(Dependencies[y]) <= MaxAdded
         /\ Dependencies' = [Dependencies EXCEPT
                               ![x] = AddDependenciesOf(@, Dependencies[y], 1)]
         /\ added' = [added EXCEPT ![x] = @ \o Dependencies[y]]
    /\ UNCHANGED <<startDependencies, linkVars, loadVars, filterVars, fileSet>>

\* the sequences over S without a repeated entry, of length n at most
NoRepeatSeqs(S, n) ==
    {s \in SeqsUpTo(S, n) : \A a, b \in 1..Len(s) : a # b => s[a] # s[b]}

\* two archives whose Dependencies have no duplicates
InitDeps ==
    /\ pc = "deps"
    /\ Dependencies \in [ArchiveNames -> NoRepeatSeqs(DepPaths, MaxStartDeps)]
    /\ startDependencies = Dependencies
    /\ added = [x \in ArchiveNames |-> <<>>]
    /\ typesPackages = <<>>
    /\ NoLink
    /\ NoLoad
    /\ NoFilter

NextDeps == AddDependencyCall \/ AddDependenciesOfCall

SpecDeps == InitDeps /\ [][NextDeps]_vars

-----------------------------------------------------------------------------
(* What the claims about the dead code elimination are stated with.        *)

\* every declaration of the program
DeclRefs == Range(AllDecls(input))

\* the loop of lines 180-202 has ended
AfterDce == pc \notin {"start", "dce"} \/ (pc = "dce" /\ pendingDecls = <<>>)

\* the loop has ended and nothing was written yet
DceJustEnded == pc = "dce" /\ pendingDecls = <<>>

LiveNow(r) == Len(DeclAt(pkgs, r).DceFilters) = 0

\* the ids of the filters a declaration had when WriteProgramCode was called
FilterIds(r) ==
    {SymbolId(input[r[1]].ImportPath, f) : f \in Range(DeclAt(input, r).DceFilters)}

\* x has a hop to y: a dependency of x is the id of a filter of y
Hop(x, y) == Range(DeclAt(input, x).DceDeps) \cap FilterIds(y) # {}

\* S and what chains of hops lead to from S
RECURSIVE HopClosure(_)
HopClosure(S) ==
    LET T == S \cup {y \in DeclRefs : \E x \in S : Hop(x, y)}
    IN  IF T = S THEN S ELSE HopClosure(T)

\* the declarations a chain of hops leads to from one without filters
HopReachable == HopClosure({r \in DeclRefs : DeclAt(input, r).DceFilters = <<>>})

\* the part of the id s between its first and its second colon
SecondField(s) ==
    LET rest == Drop(s, IndexOf(s, ":", 1))
        j    == IndexOf(rest, ":", 1)
    IN  IF j = 0 THEN rest ELSE Take(rest, j - 1)

\* every filter of r is released by a declaration of L: its id is a dependency
\* of one, and the name the code reads back from the id is the filter
AllReleased(r, L) ==
    \A f \in Range(DeclAt(input, r).DceFilters) :
       LET id == SymbolId(input[r[1]].ImportPath, f)
       IN  /\ SecondField(id) = f
           /\ \E x \in L : id \in Range(DeclAt(input, x).DceDeps)

\* the least set of declarations that holds every declaration all of whose
\* filters are released by its members (so every declaration without filters)
RECURSIVE LiveClosure(_)
LiveClosure(S) ==
    LET T == S \cup {r \in DeclRefs : AllReleased(r, S)}
    IN  IF T = S THEN S ELSE LiveClosure(T)

LeastLive == LiveClosure({})

\* C1 as stated: after the loop a declaration is live exactly when a chain of
\* hops leads to it from a declaration that had no filters.
C1_HopReachability ==
    AfterDce => \A r \in DeclRefs : LiveNow(r) <=> r \in HopReachable

\* C1 as amended: after the loop a declaration is live exactly when it is in the
\* least set closed under "all my filters are released by live declarations";
\* a hop releases one filter only.
C1_LiveIsLeastFixpoint ==
    AfterDce => \A r \in DeclRefs : LiveNow(r) <=> r \in LeastLive

\* C1's case: the loop drained a declaration, and another one with two
\* different filters, one of them released by the same hop, stays dead
C1_Witness ==
    /\ AfterDce
    /\ \E r, q \in DeclRefs :
         /\ DeclAt(input, r).DceFilters # <<>>
         /\ LiveNow(r)
         /\ Cardinality(Range(DeclAt(input, q).DceFilters)) = 2
         /\ q \in HopReachable
         /\ ~LiveNow(q)
         /\ Range(DeclAt(input, r).DceFilters) \subseteq Range(DeclAt(input, q).DceFilters)

\* the permutations of 1..n, as sequences
RECURSIVE Perms(_)
Perms(n) ==
    IF n = 0 THEN {<<>>}
    ELSE {[k \in 1..n |-> IF k < i THEN q[k] ELSE IF k = i THEN n ELSE q[k - 1]] :
            q \in Perms(n - 1), i \in 1..n}

Permuted(s, q) == [k \in 1..Len(s) |-> s[q[k]]]

Reversed(s) == [k \in 1..Len(s) |-> s[Len(s) + 1 - k]]

\* the archives ps in another order: the archives by qa, the declarations of every
\* archive by a permutation of qd, and the dependencies and the filters of every
\* declaration reversed when rd and rf say so
Reordered(ps, qa, qd, rd, rf) ==
    LET decl(d) == [d EXCEPT !.DceDeps = IF rd THEN Reversed(@) ELSE @,
                             !.DceFilters = IF rf THEN Reversed(@) ELSE @]
        arch(a, q) == [a EXCEPT !.Declarations =
                         Permuted([k \in 1..Len(@) |-> decl(@[k])], q)]
    IN  Permuted([i \in 1..Len(ps) |-> arch(ps[i], qd[i])], qa)

\* one permutation of its declarations for every archive of ps
DeclPerms(ps) ==
    {qd \in [1..Len(ps) -> UNION {Perms(n) : n \in 0..MaxDecls}] :
       \A i \in 1..Len(ps) : Len(qd[i]) = Len(ps[i].Declarations)}

\* C3: the declarations that are live when the loop ends are the same for every
\* order of the archives, of their declarations (the order in which the stack and
\* the lists of guarded declarations are filled) and of the lists DceDeps and
\* DceFilters.
C3_OrderIndependent ==
    DceJustEnded =>
      \A qa \in Perms(Len(input)), qd \in DeclPerms(input), rd \in BOOLEAN, rf \in BOOLEAN :
         LiveCode(RunDce(Reordered(input, qa, qd, rd, rf)).pkgs) = LiveCode(pkgs)

\* C3's case: two declarations start on the stack, and a declaration with two
\* different filters, released by two different dependencies, was drained
C3_Witness ==
    /\ DceJustEnded
    /\ Len(Unfiltered(input)) >= 2
    /\ \E r \in DeclRefs :
         /\ Cardinality(Range(DeclAt(input, r).DceFilters)) = 2
         /\ LiveNow(r)

\* how often x occurs in the sequence s
CountIn(s, x) == Cardinality({n \in 1..Len(s) : s[n] = x})

\* the id of the filter f of the declaration r is a dependency of a declaration
\* that is live
ReleasedById(r, f) ==
    \E x \in DeclRefs :
       /\ LiveNow(x)
       /\ SymbolId(input[r[1]].ImportPath, f) \in Range(DeclAt(input, x).DceDeps)

\* C16: after the loop, a filter whose id (path, colon, name) is a dependency of
\* a live declaration is gone from its declaration, whatever the path and the
\* name are made of; and a filter whose id is no dependency of a live
\* declaration is still there, as often as before.
C16_IdsAreOpaqueKeys ==
    AfterDce =>
      \A r \in DeclRefs : \A f \in Range(DeclAt(input, r).DceFilters) :
         IF ReleasedById(r, f)
         THEN f \notin Range(DeclAt(pkgs, r).DceFilters)
         ELSE CountIn(DeclAt(pkgs, r).DceFilters, f)
                = CountIn(DeclAt(input, r).DceFilters, f)

\* no entry of the sequence s occurs twice
NoRepeat(s) == \A a, b \in 1..Len(s) : a # b => s[a] # s[b]

\* C18: the loop ends (the first write after it is reached, which takes an empty
\* stack); at every point no key was deleted twice and every key deleted was one
\* of the index built before the loop, no declaration was put on the stack
\* twice, and when the loop has ended the stack is empty.
C18_DceTerminates ==
    /\ <>(pc = "packages")
    /\ [](/\ NoRepeat(consumed)
          /\ Range(consumed) \subseteq DOMAIN BuildIndex(input)
          /\ NoRepeat(pushed)
          /\ Range(pushed) \subseteq DeclRefs
          /\ (pc = "packages" => pendingDecls = <<>>))

\* C18's case: the loop has ended for a program in which a declaration with a
\* repeated filter depends on its own filter and was put on the stack
C18_Witness ==
    /\ pc = "packages"
    /\ \E r \in Range(pushed) :
         /\ Len(DeclAt(input, r).DceFilters) = 2
         /\ Cardinality(Range(DeclAt(input, r).DceFilters)) = 1
         /\ FilterIds(r) \cap Range(DeclAt(input, r).DceDeps) # {}

\* the declaration r depends on the id of one of its own filters
SelfGuarding(r) == FilterIds(r) \cap Range(DeclAt(input, r).DceDeps) # {}

\* the dependencies of the program whose id is the id of no filter
InertDeps ==
    UNION {Range(DeclAt(input, r).DceDeps) : r \in DeclRefs}
      \ UNION {FilterIds(r) : r \in DeclRefs}

\* the program without its inert dependencies
WithoutInertDeps ==
    [i \in 1..Len(input) |->
       [input[i] EXCEPT !.Declarations =
          [k \in 1..Len(input[i].Declarations) |->
             [input[i].Declarations[k] EXCEPT !.DceDeps =
                SelectSeq(@, LAMBDA o : o \notin InertDeps)]]]]

\* the filters every declaration of ps is left with
FiltersLeft(ps) == [n \in 1..Len(AllDecls(ps)) |-> DeclAt(ps, AllDecls(ps)[n]).DceFilters]

\* C19: after the loop, every filter of a declaration that had filters and is
\* live is a dependency of another declaration that is live (its own
\* dependencies count for nothing); a declaration that no chain of hops from a
\* declaration without filters leads to is dead; and the loop leaves the same
\* filters and the same index when the dependencies that are the id of no filter
\* are taken out of the program.
C19_SelfGuardingStaysDead ==
    AfterDce =>
      /\ \A r \in DeclRefs :
           DeclAt(input, r).DceFilters # <<>> /\ LiveNow(r) =>
             \A f \in Range(DeclAt(input, r).DceFilters) :
                \E x \in DeclRefs \ {r} :
                   /\ LiveNow(x)
                   /\ SymbolId(input[r[1]].ImportPath, f) \in Range(DeclAt(input, x).DceDeps)
      /\ \A r \in DeclRefs : r \notin HopReachable => ~LiveNow(r)
      /\ LET st == RunDce(WithoutInertDeps)
         IN  /\ FiltersLeft(st.pkgs) = FiltersLeft(pkgs)
             /\ (pc = "dce" => st.index = declsByObject)

\* C19's case: a declaration that depends on its own filter is live, released by
\* another one, and the program has a dependency that is the id of no filter
C19_Witness ==
    /\ AfterDce
    /\ \E r \in DeclRefs : SelfGuarding(r) /\ LiveNow(r)
    /\ InertDeps # {}

-----------------------------------------------------------------------------
(* What the claims about the output of WriteProgramCode are stated with.   *)

\* the positions of out that hold a chunk of kind k, ascending
PositionsOf(k) ==
    SelectSeq([n \in 1..Len(out) |-> n], LAMBDA n : out[n].kind = k)

\* the chunks of kind k, in the order they were written
OfKind(k) == SelectSeq(out, LAMBDA c : c.kind = k)

\* the positions of out that hold the code arg under kind k
Occurrences(k, arg) == {n \in 1..Len(out) : out[n].kind = k /\ out[n].arg = arg}

\* every package block is written
PackagesWritten == pc \in {"interfaces", "inits", "main", "done"}

\* every dispatch table is written
TablesWritten == pc \in {"inits", "main", "done"}

\* the block of the i-th archive lies between these positions
BlockOpen(i) == PositionsOf("pkgopen")[i]

BlockInit(i) == PositionsOf("initopen")[i]

BlockClose(i) == PositionsOf("pkgclose")[i]

\* the names of the "var" statement of the i-th block
VarNames(i) == OfKind("vars")[i].list

\* the k-th declaration of the i-th archive is emitted: its Var (if it has one)
\* is among the names of the "var" statement of its block, once, and its
\* BodyCode and InitCode are written once, in their sections of its block
Emitted(i, k) ==
    LET d == pkgs[i].Declarations[k]
    IN  /\ d.Var # <<>> => Cardinality({n \in 1..Len(VarNames(i)) :
                                          VarNames(i)[n] = d.Var}) = 1
        /\ \E n \in 1..Len(out) :
             /\ Occurrences("body", d.BodyCode) = {n}
             /\ BlockOpen(i) < n /\ n < BlockInit(i)
        /\ \E n \in 1..Len(out) :
             /\ Occurrences("init", d.InitCode) = {n}
             /\ BlockInit(i) < n /\ n < BlockClose(i)

\* the k-th declaration of the i-th archive contributes nothing
Absent(i, k) ==
    LET d == pkgs[i].Declarations[k]
    IN  /\ \A j \in 1..Len(pkgs) : d.Var \notin Range(VarNames(j))
        /\ Occurrences("body", d.BodyCode) = {}
        /\ Occurrences("init", d.InitCode) = {}

\* the k-th declaration is written before the l-th, in all three sections
EmittedBefore(i, k, l) ==
    LET d == pkgs[i].Declarations[k]
        e == pkgs[i].Declarations[l]
    IN  /\ \A n \in Occurrences("body", d.BodyCode), m \in Occurrences("body", e.BodyCode) :
             n < m
        /\ \A n \in Occurrences("init", d.InitCode), m \in Occurrences("init", e.InitCode) :
             n < m
        /\ \A n, m \in 1..Len(VarNames(i)) :
             VarNames(i)[n] = d.Var /\ VarNames(i)[m] = e.Var => n < m

\* C2: once the package blocks are written, a declaration is emitted (Var, BodyCode
\* and InitCode, each once, in the sections of its own block) if and only if its
\* DceFilters is empty after the loop, and contributes nothing otherwise; the
\* emitted declarations keep the order of the Declaration list; a declaration
\* whose DceFilters was empty before the loop is emitted.
C2_EmissionFollowsLiveness ==
    PackagesWritten =>
      \A i \in 1..Len(pkgs) :
        /\ \A k \in 1..Len(pkgs[i].Declarations) :
             /\ IF pkgs[i].Declarations[k].DceFilters = <<>>
                THEN Emitted(i, k) ELSE Absent(i, k)
             /\ input[i].Declarations[k].DceFilters = <<>> => Emitted(i, k)
        /\ \A k, l \in 1..Len(pkgs[i].Declarations) : k < l => EmittedBefore(i, k, l)

\* C2's case: a block is written of a package with a declaration that was live
\* from the start, one that the loop drained, and one that stayed filtered
C2_Witness ==
    /\ PackagesWritten
    /\ \E i \in 1..Len(pkgs) : \E k, l, m \in 1..Len(pkgs[i].Declarations) :
         /\ input[i].Declarations[k].DceFilters = <<>>
         /\ input[i].Declarations[l].DceFilters # <<>>
         /\ pkgs[i].Declarations[l].DceFilters = <<>>
         /\ pkgs[i].Declarations[l].Var # <<>>
         /\ pkgs[i].Declarations[m].DceFilters # <<>>
         /\ pkgs[i].Declarations[m].Var # <<>>

\* the stage a chunk belongs to; the newline that ends the prelude and a block
\* belongs to no stage of its own
Rank(kind) ==
    CASE kind \in {"strict", "prelude"} -> 1
      [] kind \in {"pkgopen", "vars", "body", "initopen", "init", "pkgclose"} -> 2
      [] kind = "implementedBy" -> 3
      [] kind = "initcall" -> 4
      [] kind = "main" -> 5
      [] OTHER -> 0

\* the import paths of the archives, in the order given
ArchivePaths == [i \in 1..Len(pkgs) |-> pkgs[i].ImportPath]

\* the codes the chunks of kind k carry, in the order written
ArgsOf(k) == [n \in 1..Len(OfKind(k)) |-> OfKind(k)[n].arg]

\* the candidates of the dispatch tables: allTypeNames
Candidates == AllTypeNames(pkgs, typesPackages, declsByObject)

\* the candidates that get a table
Interfaces == SelectSeq(Candidates, LAMBDA t : t.Kind = "interface" /\ t.Methods # {})

\* C7: at every point of WriteProgramCode the chunks written so far are in the
\* order prelude, package blocks, dispatch tables, init triggers, entry call;
\* the blocks and the init triggers follow the order of the archives; an init
\* trigger is written only after every block and every table; at the return
\* there is one prelude, one block and one init trigger for every archive, and
\* one entry call, for mainPkgPath, which is the last chunk.
C7_AssemblyOrder ==
    /\ \A n, m \in 1..Len(out) :
         n < m /\ Rank(out[n].kind) # 0 /\ Rank(out[m].kind) # 0
           => Rank(out[n].kind) <= Rank(out[m].kind)
    /\ Len(ArgsOf("pkgopen")) <= Len(pkgs)
    /\ ArgsOf("pkgopen") = Take(ArchivePaths, Len(ArgsOf("pkgopen")))
    /\ Len(ArgsOf("initcall")) <= Len(pkgs)
    /\ ArgsOf("initcall") = Take(ArchivePaths, Len(ArgsOf("initcall")))
    /\ ArgsOf("initcall") # <<>> =>
         /\ ArgsOf("pkgopen") = ArchivePaths
         /\ Len(OfKind("pkgclose")) = Len(pkgs)
         /\ Len(OfKind("implementedBy")) = Len(Interfaces)
    /\ ArgsOf("main") # <<>> => pc = "done"
    /\ pc = "done" =>
         /\ out[1].kind = "strict"
         /\ Len(OfKind("prelude")) = 1
         /\ ArgsOf("pkgopen") = ArchivePaths
         /\ ArgsOf("initcall") = ArchivePaths
         /\ ArgsOf("main") = <<mainPkgPath>>
         /\ out[Len(out)].kind = "main"

\* C7's case: WriteProgramCode has returned for two archives and more than one
\* dispatch table
C7_Witness ==
    /\ pc = "done"
    /\ Len(pkgs) = 2
    /\ Len(OfKind("implementedBy")) >= 2
    /\ Len(OfKind("body")) >= 2

\* the reference of the value form and of the pointer form of a candidate
ValueForm(t) == PkgRef(t)

PointerForm(t) == IF t.Kind = "struct" THEN StructPtrRef(t) ELSE PtrTypeRef(t)

\* the candidates whose underlying type is no interface
Implementors == {t \in Range(Candidates) : t.Kind # "interface"}

\* C8: once the tables are written there is one for every candidate whose
\* underlying type is an interface with methods, in their order; its list holds
\* the value form of exactly the candidates that are no interface and are
\* assignable to it, the pointer form of exactly those whose pointer is
\* assignable to it, and nothing else; it is strictly ascending (sorted, without
\* duplicates) and holds no reference of an interface.
C8_TableContent ==
    TablesWritten =>
      /\ Len(OfKind("implementedBy")) = Len(Interfaces)
      /\ \A n \in 1..Len(Interfaces) :
           LET in == Interfaces[n]
               list == OfKind("implementedBy")[n].list
           IN  /\ \A s \in Implementors :
                    /\ ValueForm(s) \in Range(list) <=> in.Methods \subseteq s.Methods
                    /\ PointerForm(s) \in Range(list) <=> in.Methods \subseteq s.PtrMethods
               /\ \A r \in Range(list) :
                    \E s \in Implementors : r \in {ValueForm(s), PointerForm(s)}
               /\ \A a, b \in 1..Len(list) : a < b => StrLess(list[a], list[b])
               /\ \A t \in Range(Candidates) :
                    t.Kind = "interface" =>
                      Range(list) \cap {PkgRef(t), StructPtrRef(t), PtrTypeRef(t)} = {}

\* C8's case: a table lists a struct by both forms and a type that is no struct
\* by both forms, while another candidate is left out of it
C8_Witness ==
    /\ TablesWritten
    /\ \E n \in 1..Len(Interfaces) :
         LET list == OfKind("implementedBy")[n].list
         IN  /\ \E s \in Implementors :
                  /\ s.Kind = "struct"
                  /\ {PkgRef(s), StructPtrRef(s)} \subseteq Range(list)
             /\ \E s \in Implementors :
                  /\ s.Kind # "struct"
                  /\ {PkgRef(s), PtrTypeRef(s)} \subseteq Range(list)
    /\ \E n \in 1..Len(Interfaces) : \E s \in Implementors :
         PkgRef(s) \notin Range(OfKind("implementedBy")[n].list)

\* the type names of the scope of the i-th archive
TypeObjects(i) == {o \in typesPackages[pkgs[i].ImportPath] : o.Obj = "type"}

\* the declaration of the type o of the i-th archive is dead after the loop
OwnDeclDead(i, o) ==
    \E k \in 1..Len(pkgs[i].Declarations) :
       /\ pkgs[i].Declarations[k].Var = o.Name
       /\ pkgs[i].Declarations[k].DceFilters # <<>>

\* the references of the type o of the i-th archive
ReferencesOf(i, o) ==
    LET t == [Pkg |-> pkgs[i].ImportPath, Name |-> o.Name]
    IN  {PkgRef(t), StructPtrRef(t), PtrTypeRef(t)}

\* C9: once the tables are written, a type of a package whose own declaration
\* is dead after the loop is the target of no table and is listed in no table.
C9_DeadTypesExcluded ==
    TablesWritten =>
      \A i \in 1..Len(pkgs) : \A o \in TypeObjects(i) :
         OwnDeclDead(i, o) =>
           \A n \in 1..Len(OfKind("implementedBy")) :
              /\ OfKind("implementedBy")[n].arg \notin ReferencesOf(i, o)
              /\ Range(OfKind("implementedBy")[n].list) \cap ReferencesOf(i, o) = {}

\* the target reserved for the error of the universe
ErrorTarget == <<"$", "e", "r", "r", "o", "r">>

\* C10: once the tables are written there is a table under the target $error,
\* it is the only one under that target, and no two tables have the same target.
C10_ReservedErrorTarget ==
    TablesWritten =>
      /\ Cardinality({n \in 1..Len(OfKind("implementedBy")) :
                        OfKind("implementedBy")[n].arg = ErrorTarget}) = 1
      /\ \A n, m \in 1..Len(OfKind("implementedBy")) :
           n # m => OfKind("implementedBy")[n].arg # OfKind("implementedBy")[m].arg

\* the program is one package without imports and with one declaration, which
\* has no filters, and the package is the entry point
EmptyProgram ==
    /\ round = 1
    /\ Len(input) = 1
    /\ input[1].Imports = <<>>
    /\ Len(input[1].Declarations) = 1
    /\ input[1].Declarations[1].DceFilters = <<>>
    /\ mainPkgPath = input[1].ImportPath

\* what the chunks written carry, without the minify mark and the position table
WrittenChunks == [n \in 1..Len(out) |-> <<out[n].kind, out[n].arg, out[n].list>>]

\* the "var" statement of the one declaration
OnlyVars ==
    LET d == input[1].Declarations[1]
    IN  <<(<<"$pkg = {}">>)>> \o (IF d.Var = <<>> THEN <<>> ELSE <<d.Var>>)

\* prelude and package block of the empty program
EmptyProgramHead ==
    LET d == input[1].Declarations[1]
    IN  << <<"strict", <<>>, <<>>>>, <<"prelude", <<>>, <<>>>>, <<"newline", <<>>, <<>>>>,
           <<"pkgopen", input[1].ImportPath, <<>>>>, <<"vars", <<>>, OnlyVars>>,
           <<"body", d.BodyCode, <<>>>>, <<"initopen", <<>>, <<>>>>,
           <<"init", d.InitCode, <<>>>>, <<"pkgclose", <<>>, <<>>>>,
           <<"newline", <<>>, <<>>>> >>

\* init call and entry call of the empty program
EmptyProgramTail ==
    << <<"initcall", input[1].ImportPath, <<>>>>, <<"main", mainPkgPath, <<>>>> >>

\* the interfaces with methods of the scope of the package, by name
ScopeInterfaces ==
    SortStrings({o.Name : o \in {x \in typesPackages[input[1].ImportPath] :
                                   x.Obj = "type" /\ x.Kind = "interface" /\ x.Methods # {}}})

C13_EmitterKeepsNoState ==
    PackagesWritten /\ MappingCallback =>
      \A i \in 1..Len(pkgs) : \A n \in 1..Len(out) :
         BlockOpen(i) <= n /\ n <= BlockClose(i) => out[n].fs = pkgs[i].FileSet

-----------------------------------------------------------------------------
(* What the claims about linking again are stated with.                    *)

\* the second call has returned, and it was given the list of the first call
SameLinkedTwice == round = 2 /\ pc = "done" /\ firstCall.same

\* C11: when WriteProgramCode has returned from a second call on the same list
\* of archives, with the same mainPkgPath and minify and a new filter, the
\* declarations without filters, the candidates of the dispatch tables and the
\* writes, one by one and in order, are those of the first call.
C11_RelinkSameOutput ==
    SameLinkedTwice =>
      /\ LiveCode(pkgs) = firstCall.live
      /\ Candidates = firstCall.candidates
      /\ out = firstCall.out

\* no id, path or name of the program has more than its one colon
ColonFree ==
    /\ \A i \in 1..Len(fresh) : ":" \notin Range(fresh[i].ImportPath)
    /\ \A r \in Range(AllDecls(fresh)) :
         \A f \in Range(DeclAt(fresh, r).DceFilters) : ":" \notin Range(f)

\* the archives of the running call are not the whole list of the first call
LinkedInAnotherProgram == round = 2 /\ ~firstCall.same /\ AfterDce

\* C17: when the loop of a second call has ended, on a list of archives that the
\* first call has linked as part of a longer list, the declarations without
\* filters and the package blocks are those of the same call on copies of the
\* archives that were never linked.
C17_DrainedArchiveLinksAlike ==
    LinkedInAnotherProgram =>
      LET clean == RunDce(fresh).pkgs
      IN  /\ LiveCode(pkgs) = LiveCode(clean)
          /\ \A i \in 1..Len(pkgs) :
               PkgChunks(pkgs[i], minify) = PkgChunks(clean[i], minify)


-----------------------------------------------------------------------------
(* What the claim about the Dependencies is stated with.                   *)

\* s without the entries of seen and without the later copies of its entries
RECURSIVE FirstOnes(_, _)
FirstOnes(s, seen) ==
    IF s = <<>> THEN <<>>
    ELSE IF Head(s) \in seen THEN FirstOnes(Tail(s), seen)
    ELSE <<Head(s)>> \o FirstOnes(Tail(s), seen \cup {Head(s)})

\* C20: at every point the Dependencies of an archive have no duplicate, hold
\* exactly the paths they started with and the paths added to that archive, and
\* are the list they started with followed by the paths added that were new, in
\* the order they were first added; so a call for a path that is present, and a
\* call on another archive, leave the list as it is.
C20_DependenciesDeduplicated ==
    pc = "deps" =>
      \A x \in ArchiveNames :
         /\ \A a, b \in 1..Len(Dependencies[x]) :
              a # b => Dependencies[x][a] # Dependencies[x][b]
         /\ {Dependencies[x][n] : n \in 1..Len(Dependencies[x])}
              = {startDependencies[x][n] : n \in 1..Len(startDependencies[x])}
                \cup {added[x][n] : n \in 1..Len(added[x])}
         /\ Dependencies[x]
              = startDependencies[x]
                \o FirstOnes(added[x], {startDependencies[x][n] :
                                          n \in 1..Len(startDependencies[x])})

\* C20's case: an archive was handed a path it had, a path twice, and a new
\* path, while the other archive has dependencies of its own
C20_Witness ==
    /\ pc = "deps"
    /\ \E x \in ArchiveNames, y \in ArchiveNames :
         /\ x # y
         /\ Dependencies[y] # <<>>
         /\ Len(added[x]) = 3
         /\ Len(Dependencies[x]) = Len(startDependencies[x]) + 1
         /\ startDependencies[x] # <<>>

-----------------------------------------------------------------------------
(* SourceMapFilter.Write                                                   *)

\* '\b', the byte that announces a position cookie
Sentinel == 8
\* '\n'
Newline == 10
\* a cookie is a uint32: p[i+1:i+5]
CookieLen == 4

\* bytes.IndexByte(p, c), counted from 1; 0 when c is not in p (Go's -1)
RECURSIVE IndexByteFrom(_, _, _)
IndexByteFrom(p, c, i) ==
    IF i > Len(p) THEN 0
    ELSE IF p[i] = c THEN i
    ELSE IndexByteFrom(p, c, i + 1)

IndexByte(p, c) == IndexByteFrom(p, c, 1)

\* binary.BigEndian.Uint32(b)
BigEndianUint32(b) == b[1] * 16777216 + b[2] * 65536 + b[3] * 256 + b[4]

\* f.Writer.Write(w): the sink takes the bytes it has room for and reports an
\* error when it could not take them all
WriterAccepts(w, rm) == IF rm = -1 \/ Len(w) <= rm THEN w ELSE Take(w, rm)

WriterErr(w, rm) == rm # -1 /\ Len(w) > rm

WriterRoom(w, rm) == IF rm = -1 THEN -1 ELSE rm - Len(WriterAccepts(w, rm))

\* the inner loop of Write: every newline of w starts a line, the bytes after the
\* last one are the column
RECURSIVE Advance(_, _)
Advance(w, lc) ==
    LET i == IndexByte(w, Newline) IN
    IF i = 0 THEN [line |-> lc.line, column |-> lc.column + Len(w)]
    ELSE Advance(Drop(w, i), [line |-> lc.line + 1, column |-> 0])

\* what Write goes on with after a cookie: p = p[i+5:]
RestBug(p, i) == Drop(p, i)

Rest(p, i) == Drop(p, i + CookieLen)

\* the line handed to the callback: f.line+1
ReportedLineBug(l) == l

ReportedLine(l) == l + 1

(***************************************************************************)
(* The loop of Write.  p is the argument, tail the bytes of its backing    *)
(* array past len(p) (a slice expression may reach up to cap(p)), st the   *)
(* filter, its sink and the result so far.  The call panics when the       *)
(* cookie does not lie inside the array (p[i+1:i+5]) or inside p           *)
(* (p[i+5:]).                                                              *)
(***************************************************************************)
RECURSIVE WriteLoop(_, _, _)
WriteLoop(p, tail, st) ==
    LET i    == IndexByte(p, Sentinel)
        w    == IF i = 0 THEN p ELSE Take(p, i - 1)
        err  == WriterErr(w, st.room)
        lc   == Advance(w, [line |-> st.line, column |-> st.column])
        st1  == [st EXCEPT !.sink = @ \o WriterAccepts(w, st.room),
                           !.room = WriterRoom(w, st.room),
                           !.n = @ + Len(WriterAccepts(w, st.room)),
                           !.err = err,
                           !.failed = @ \/ err,
                           !.line = lc.line,
                           !.column = lc.column]
        arr  == p \o tail
        st2  == IF st.cb
                THEN [st1 EXCEPT !.calls = Append(@,
                         [line |-> ReportedLine(st1.line), column |-> st1.column,
                          fileSet |-> st.fileSet,
                          pos |-> BigEndianUint32(SubSeq(arr, i + 1, i + CookieLen))])]
                ELSE st1
    IN  IF err \/ i = 0 THEN st1
        ELSE IF st.cb /\ i + CookieLen > Len(arr) THEN [st1 EXCEPT !.panic = TRUE]
        ELSE IF i + CookieLen > Len(p) THEN [st2 EXCEPT !.panic = TRUE]
        ELSE WriteLoop(Rest(p, i), tail, [st2 EXCEPT !.n = @ + CookieLen + 1])

\* the filter and its surroundings as WriteLoop's record
FilterState ==
    [line |-> line, column |-> column, fileSet |-> fileSet, cb |-> MappingCallback,
     sink |-> sink, room |-> room, calls |-> calls, n |-> 0, err |-> FALSE,
     failed |-> sinkFailed, panic |-> FALSE]

\* the cookies of the streams: one contains the sentinel's and the newline's value
Cookies == {<<0, 0, 0, 1>>, <<Sentinel, Newline, 0, 2>>}

\* an item of a stream: a text byte, or a sentinel followed by its cookie
Items == {<<97>>, <<Newline>>} \cup {<<Sentinel>> \o c : c \in Cookies}

RECURSIVE StreamsOf(_)
StreamsOf(n) ==
    IF n = 0 THEN {<<>>}
    ELSE LET shorter == StreamsOf(n - 1)
         IN  shorter \cup {it \o s : it \in Items, s \in shorter}

Streams == StreamsOf(MaxItems)

\* the part of the stream not yet written
Fed == Len(Concat(writes))

Unfed == Drop(stream, Fed)

(***************************************************************************)
(* One call f.Write(p): p is the next k bytes of the stream, either as a   *)
(* slice of the caller's buffer (its array goes on with the rest of the    *)
(* stream) or as a copy of its own.                                        *)
(***************************************************************************)
FilterWrite ==
    /\ pc = "filter"
    /\ ~panicked
    /\ \E k \in 1..Len(Unfed), sliced \in BOOLEAN :
         LET p    == Take(Unfed, k)
             tail == IF sliced THEN Drop(Unfed, k) ELSE <<>>
             st   == WriteLoop(p, tail, FilterState)
         IN  /\ line' = st.line
             /\ column' = st.column
             /\ sink' = st.sink
             /\ room' = st.room
             /\ calls' = st.calls
             /\ ret' = [n |-> st.n, err |-> st.err]
             /\ sinkFailed' = st.failed
             /\ panicked' = st.panic
             /\ writes' = Append(writes, p)
    /\ UNCHANGED <<stream, MappingCallback, fileSet>>
    /\ UNCHANGED <<linkVars, loadVars, depVars>>

\* a new SourceMapFilter{Writer: ..., MappingCallback: ...} and a stream to write
InitFilter ==
    /\ pc = "filter"
    /\ stream \in Streams
    /\ room \in {-1} \cup 0..MaxRoom
    /\ MappingCallback \in BOOLEAN
    /\ fileSet = "nil"
    /\ line = 0
    /\ column = 0
    /\ sink = <<>>
    /\ calls = <<>>
    /\ writes = <<>>
    /\ ret = [n |-> 0, err |-> FALSE]
    /\ sinkFailed = FALSE
    /\ panicked = FALSE
    /\ pkgs = <<>>
    /\ typesPackages = <<>>
    /\ mainPkgPath = <<>>
    /\ minify = FALSE
    /\ input = <<>>
    /\ declsByObject = <<>>
    /\ pendingDecls = <<>>
    /\ idx = 0
    /\ out = <<>>
    /\ fresh = <<>>
    /\ firstCall = <<>>
    /\ round = 0
    /\ pushed = <<>>
    /\ consumed = <<>>
    /\ NoLoad
    /\ NoDeps

-----------------------------------------------------------------------------
(* What the claims about SourceMapFilter.Write are stated with.  These     *)
(* read a byte stream one byte at a time and do not use Write's loop.      *)

\* the stream the filter was written so far, in one piece
Written == Concat(writes)

\* every sentinel of p has its four cookie bytes behind it inside p
RECURSIVE Complete(_)
Complete(p) ==
    IF p = <<>> THEN TRUE
    ELSE IF Head(p) = Sentinel
         THEN Len(p) >= CookieLen + 1 /\ Complete(Drop(p, CookieLen + 1))
         ELSE Complete(Tail(p))

AllComplete == \A i \in 1..Len(writes) : Complete(writes[i])

\* p without its sentinels and their cookies
RECURSIVE Strip(_)
Strip(p) ==
    IF p = <<>> THEN <<>>
    ELSE IF Head(p) = Sentinel THEN Strip(Drop(p, CookieLen + 1))
    ELSE <<Head(p)>> \o Strip(Tail(p))

\* the number of sentinel+cookie pairs of p
RECURSIVE NumPairs(_)
NumPairs(p) ==
    IF p = <<>> THEN 0
    ELSE IF Head(p) = Sentinel THEN 1 + NumPairs(Drop(p, CookieLen + 1))
    ELSE NumPairs(Tail(p))

\* the callback invocations p asks for: nl newlines and col bytes since the last
\* newline were forwarded before p
RECURSIVE ExpectedCalls(_, _, _)
ExpectedCalls(p, nl, col) ==
    IF p = <<>> THEN <<>>
    ELSE IF Head(p) = Sentinel
         THEN <<[line |-> 1 + nl, column |-> col, fileSet |-> fileSet,
                 pos |-> p[2] * 16777216 + p[3] * 65536 + p[4] * 256 + p[5]]>>
              \o ExpectedCalls(Drop(p, CookieLen + 1), nl, col)
         ELSE IF Head(p) = Newline THEN ExpectedCalls(Tail(p), nl + 1, 0)
         ELSE ExpectedCalls(Tail(p), nl, col + 1)

\* the whole stream written by one call to a new filter whose sink takes everything
OneWrite ==
    WriteLoop(stream, <<>>,
              [line |-> 0, column |-> 0, fileSet |-> fileSet, cb |-> TRUE,
               sink |-> <<>>, room |-> -1, calls |-> <<>>, n |-> 0, err |-> FALSE,
               failed |-> FALSE, panic |-> FALSE])

\* the stream was handed over in two calls, or the first of them panicked
FedInTwo ==
    \/ Len(writes) = 2 /\ Written = stream
    \/ Len(writes) \in 1..2 /\ panicked

\* C4: a stream with one sentinel+cookie pair, written in two calls split at any
\* byte, gives the sink bytes and the one callback invocation of a single call.
C4_FragmentationInvariance ==
    (NumPairs(stream) = 1 /\ Complete(stream) /\ room = -1 /\ MappingCallback
       /\ FedInTwo)
    => /\ ~panicked
       /\ sink = OneWrite.sink
       /\ calls = OneWrite.calls
       /\ Len(calls) = 1

\* C5: when no call splits a cookie and the sink takes every byte, the sink holds
\* the inputs without their sentinels and cookies, in order, and no call panics.
C5_PassThrough ==
    (AllComplete /\ ~sinkFailed)
    => /\ ~panicked
       /\ sink = Concat([i \in 1..Len(writes) |-> Strip(writes[i])])

\* C5's case: two calls went through, one with a cookie that holds the
\* sentinel's and the newline's value, and bytes reached the sink
C5_Witness ==
    /\ AllComplete /\ ~sinkFailed /\ Len(writes) >= 2 /\ sink # <<>>
    /\ \E i \in 1..Len(writes) : \E j \in 1..Len(writes[i]) :
         /\ writes[i][j] = Sentinel
         /\ j + 2 <= Len(writes[i])
         /\ writes[i][j + 1] = Sentinel
         /\ writes[i][j + 2] = Newline

NextFilter == FilterWrite

SpecFilter == InitFilter /\ [][NextFilter]_vars

-----------------------------------------------------------------------------
\* C14: over the calls made on one Compiler, an entry of typesPackages is
\* added only by an UnmarshalArchive that succeeds, is never removed, and
\* never comes to hold another package than the one it was added with.
RegistryKept ==
    \A path \in DOMAIN typesPackages :
        /\ path \in DOMAIN typesPackages'
        /\ typesPackages'[path] = typesPackages[path]

AddedByLoading ==
    DOMAIN typesPackages' # DOMAIN typesPackages
        => /\ DOMAIN loaded' # {}
           /\ loaded'.err = "nil"
           /\ DOMAIN typesPackages' = DOMAIN typesPackages \union {loaded'.id}
           /\ UNCHANGED <<archive, data>>

C14_RegistryLifecycle == [][RegistryKept /\ AddedByLoading]_vars

\* C15: when UnmarshalArchive is handed the bytes MarshalArchive made of an
\* archive, and the type data in it imports, it succeeds and returns
\* an archive equal to that one in every field, nil slices included.
RoundTripped ==
    /\ pc = "load"
    /\ DOMAIN loaded # {}
    /\ loaded.bytes = MarshalArchive(archive)
    /\ loaded.err # "import"

C15_ArchiveRoundTrip ==
    RoundTripped => loaded.err = "nil" /\ loaded.a = <<archive>>

=============================================================================
